---- MODULE Spec2Model ----
(***************************************************************************)
(* Save Images Offline (Obsidian plugin): the document rewriter            *)
(* (imageProcessor.ts), the fetcher (utils.ts downloadImage) and the       *)
(* document-level operation processFile (main.ts).                         *)
(*                                                                         *)
(* Text is modelled as a sequence of tokens, each token standing for the   *)
(* exact characters a regular expression of utils.ts looks at:             *)
(*   bang "!["   mid "]("   rp ")"   lb "["   txt (other characters)       *)
(*   url  (an http(s) URL without blanks or parentheses)                   *)
(*   loc  (a local path)                                                   *)
(*   img "<img"   src (src="<http(s) URL>")   alt (alt="...")   gt ">"     *)
(* A document of the model is one line of text (the "." of the regular     *)
(* expressions matches every token).                                       *)
(*                                                                         *)
(* A file name is a sequence of pieces (strings); concatenation of strings *)
(* is concatenation of sequences.  A path is a sequence of components,     *)
(* each component a sequence of pieces.                                    *)
(***************************************************************************)
EXTENDS Integers, Sequences, FiniteSets, TLC

\* ------------------------------------------------------------------ bounds
MaxSegs == 2
MaxRuns == 2
MaxRetries == 3
MaxFiles == 2
MaxImgs == 2

\* -------------------------------------------------------------------- URLs
\* The remote URLs of the model.  host: the labels of the hostname;
\* segs: the non-empty segments of the path, each a sequence of pieces;
\* query: a sequence of <<key, value>>.
\*   uA  https://cdn.example.org/img/photo123.jpg
\*   uB  https://pics.example.net/full.png
\*   uI  https://sub.ignored.com/x.gif
\*   uN  https://example.org/page
\* and, for the file names,
\*   uW  https://cdn.example.org/img/pic.webp
\*   uS  https://cdn.example.org/img/logo.svg
\*   uD  https://cdn.example.org/img/photo.min.jpg
\*   uQ  https://cdn.example.org/render?format=png
\*   uX  https://cdn.example.org/img/view
\* and, for the ignored domains,
\*   uE  https://example.com/a.png
\*   uU  https://sub.example.com/a.png
\*   uO  https://notexample.com/a.png
\*   uZ  https://            (new URL throws: no host)
\* and, for the image heuristics,
\*   uT  https://example.org/a.png?v=2
\*   uH  https://example.org/uploads/avatar
UrlInfo ==
  [ uA |-> [host |-> <<"cdn", "example", "org">>,
            segs |-> << <<"img">>, <<"photo123", ".", "jpg">> >>,
            query |-> <<>>],
    uB |-> [host |-> <<"pics", "example", "net">>,
            segs |-> << <<"full", ".", "png">> >>,
            query |-> <<>>],
    uI |-> [host |-> <<"sub", "ignored", "com">>,
            segs |-> << <<"x", ".", "gif">> >>,
            query |-> <<>>],
    uN |-> [host |-> <<"example", "org">>,
            segs |-> << <<"page">> >>,
            query |-> <<>>],
    uW |-> [host |-> <<"cdn", "example", "org">>,
            segs |-> << <<"img">>, <<"pic", ".", "webp">> >>,
            query |-> <<>>],
    uS |-> [host |-> <<"cdn", "example", "org">>,
            segs |-> << <<"img">>, <<"logo", ".", "svg">> >>,
            query |-> <<>>],
    uD |-> [host |-> <<"cdn", "example", "org">>,
            segs |-> << <<"img">>, <<"photo", ".", "min", ".", "jpg">> >>,
            query |-> <<>>],
    uQ |-> [host |-> <<"cdn", "example", "org">>,
            segs |-> << <<"render">> >>,
            query |-> << <<"format", "png">> >>],
    uX |-> [host |-> <<"cdn", "example", "org">>,
            segs |-> << <<"img">>, <<"view">> >>,
            query |-> <<>>],
    uE |-> [host |-> <<"example", "com">>,
            segs |-> << <<"a", ".", "png">> >>,
            query |-> <<>>],
    uU |-> [host |-> <<"sub", "example", "com">>,
            segs |-> << <<"a", ".", "png">> >>,
            query |-> <<>>],
    uO |-> [host |-> <<"notexample", "com">>,
            segs |-> << <<"a", ".", "png">> >>,
            query |-> <<>>],
    uZ |-> [host |-> <<>>,
            segs |-> <<>>,
            query |-> <<>>],
    uT |-> [host |-> <<"example", "org">>,
            segs |-> << <<"a", ".", "png">> >>,
            query |-> << <<"v", "2">> >>],
    uH |-> [host |-> <<"example", "org">>,
            segs |-> << <<"uploads">>, <<"avatar">> >>,
            query |-> <<>>] ]

Urls == DOMAIN UrlInfo

ImageExts == {"png", "jpg", "jpeg", "gif", "webp", "svg", "awebp", "bmp", "tiff", "avif"}
FormatExts == {"webp", "png", "jpg", "jpeg", "gif", "avif"}
HostingDirs == {"api/res", "image", "images", "photo", "photos", "picture", "pictures",
                "media", "upload", "uploads", "content", "assets", "file", "files", "static"}

\* The extension a path segment ends with: the piece after its last ".", or "".
SegExt(seg) ==
  IF Len(seg) >= 2 /\ seg[Len(seg) - 1] = "." THEN seg[Len(seg)] ELSE ""

LastSeg(u) ==
  IF Len(UrlInfo[u].segs) = 0 THEN <<>> ELSE UrlInfo[u].segs[Len(UrlInfo[u].segs)]

\* imageExtPattern: the URL has ".<ext>" followed by ?, &, # or its end.
imageExtPattern(u) == SegExt(LastSeg(u)) \in ImageExts

\* typeParamPattern, formatParamPattern: type=<ext> or format=<ext>.
typeParamPattern(u) ==
  \E i \in DOMAIN UrlInfo[u].query :
    /\ UrlInfo[u].query[i][1] \in {"type", "format"}
    /\ UrlInfo[u].query[i][2] \in ImageExts

\* formatInParamPattern: cf=, fmt=, format= or type= with a format name.
formatInParamPattern(u) ==
  \E i \in DOMAIN UrlInfo[u].query :
    /\ UrlInfo[u].query[i][1] \in {"cf", "fmt", "format", "type"}
    /\ UrlInfo[u].query[i][2] \in FormatExts

\* imageHostingPattern: a hosting-style directory followed by a name.
imageHostingPattern(u) ==
  \E i \in DOMAIN UrlInfo[u].segs :
    /\ i < Len(UrlInfo[u].segs)
    /\ Len(UrlInfo[u].segs[i]) = 1
    /\ UrlInfo[u].segs[i][1] \in HostingDirs

\* An extension and a hosting directory, both.
isLikelyImageUrlAll(u) ==
  /\ imageExtPattern(u)
  /\ imageHostingPattern(u)

\* OR of the heuristics (the nested-URL, resource-id, image-id and date
\* heuristics need a nested URL, a numeric directory, an 8+8 character id or
\* a date directory, which no URL of the model has).
isLikelyImageUrl(u) ==
  \/ imageExtPattern(u)
  \/ typeParamPattern(u)
  \/ formatInParamPattern(u)
  \/ imageHostingPattern(u)

\* ---------------------------------------------------------- ignored domains
IsSuffix(s, t) ==
  /\ Len(s) <= Len(t)
  /\ \A i \in 1..Len(s) : s[i] = t[Len(t) - Len(s) + i]

\* A host name as the pieces of its string: the labels with "." between them,
\* a label that holds another name as its end in two pieces.
Pieces(label) ==
  IF label = "notexample" THEN <<"not", "example">> ELSE <<label>>

RECURSIVE hostname(_)
hostname(labels) ==
  IF Len(labels) = 0 THEN <<>>
  ELSE IF Len(labels) = 1 THEN Pieces(labels[1])
  ELSE Pieces(labels[1]) \o <<".">> \o hostname(Tail(labels))

\* String.prototype.trim and toLowerCase on the pieces of a list entry.
RECURSIVE trimStart(_)
trimStart(e) ==
  IF Len(e) > 0 /\ e[1] = " " THEN trimStart(Tail(e)) ELSE e

RECURSIVE trimEnd(_)
trimEnd(e) ==
  IF Len(e) > 0 /\ e[Len(e)] = " " THEN trimEnd(SubSeq(e, 1, Len(e) - 1)) ELSE e

trim(e) == trimEnd(trimStart(e))

LowerOf(p) ==
  CASE p = "Example" -> "example"
    [] p = "COM" -> "com"
    [] OTHER -> p

toLowerCase(e) == [i \in DOMAIN e |-> LowerOf(e[i])]

\* domain.endsWith(`.${entry}`), without the dot.
isIgnoredDomainNoDot(u, ignoredDomains) ==
  /\ Len(ignoredDomains) > 0
  /\ UrlInfo[u].host # <<>>
  /\ \E i \in DOMAIN ignoredDomains :
       LET domain == hostname(UrlInfo[u].host)
           entry == toLowerCase(trim(ignoredDomains[i]))
       IN domain = entry \/ IsSuffix(entry, domain)

\* ignoredDomains: the setting's string as its entries between the commas,
\* each entry the pieces of its text; <<>> is the empty string.  A URL that
\* new URL() rejects has no host and is never ignored.
isIgnoredDomain(u, ignoredDomains) ==
  /\ Len(ignoredDomains) > 0
  /\ UrlInfo[u].host # <<>>
  /\ \E i \in DOMAIN ignoredDomains :
       LET domain == hostname(UrlInfo[u].host)
           entry == toLowerCase(trim(ignoredDomains[i]))
       IN domain = entry \/ IsSuffix(<<".">> \o entry, domain)

\* ------------------------------------------------------------------- bytes
\* The byte contents of the model.  sig: what the first 12 bytes hold;
\* md5: the hex digest, as its first 8 characters and the other 24.
\*   bJ starts FF D8; bP starts 89 50 4E 47; bG starts 47 49 46;
\*   bX carries no known signature; bPj is bP transcoded to JPEG;
\*   bR starts 52 49 46 46 (RIFF); bB starts 42 4D.
BytesInfo ==
  [ bJ  |-> [sig |-> "jpeg", md5 |-> <<"0a1b2c3d", "rest-bJ">>],
    bP  |-> [sig |-> "png",  md5 |-> <<"4e5f6a7b", "rest-bP">>],
    bG  |-> [sig |-> "gif",  md5 |-> <<"8c9d0e1f", "rest-bG">>],
    bX  |-> [sig |-> "none", md5 |-> <<"2a3b4c5d", "rest-bX">>],
    bPj |-> [sig |-> "jpeg", md5 |-> <<"6e7f8a9b", "rest-bPj">>],
    bR  |-> [sig |-> "riff", md5 |-> <<"0c1d2e3f", "rest-bR">>],
    bB  |-> [sig |-> "bmp",  md5 |-> <<"4a5b6c7d", "rest-bB">>] ]

\* What the server of each URL answers with, when it answers.
RemoteBytes == [uA |-> "bJ", uB |-> "bP", uI |-> "bG", uN |-> "bX"]

calculateMD5(b) == BytesInfo[b].md5

\* The canvas round trip of convertPngToJpeg, when it succeeds.
convertPngToJpeg(b) == IF b = "bP" THEN "bPj" ELSE b

\* The signature table of downloadAndSaveImage, first match wins.
detectedExtension(b) ==
  CASE BytesInfo[b].sig = "png"  -> "png"
    [] BytesInfo[b].sig = "jpeg" -> "jpg"
    [] BytesInfo[b].sig = "gif"  -> "gif"
    [] BytesInfo[b].sig = "riff" -> "jpg"
    [] BytesInfo[b].sig = "bmp"  -> "bmp"
    [] OTHER -> ""

\* The value of the first query parameter whose key is in keys and whose
\* value is in vals, or "".
QueryValue(u, keys, vals) ==
  LET q == UrlInfo[u].query
      hits == {i \in DOMAIN q : q[i][1] \in keys /\ q[i][2] \in vals}
  IN IF hits = {} THEN "" ELSE q[CHOOSE i \in hits : \A j \in hits : i <= j][2]

AnyValue(u) == {UrlInfo[u].query[i][2] : i \in DOMAIN UrlInfo[u].query}

\* getFileExtension: the extension of the last path segment (the path rule
\* needs a URL without query), else type=, else format=, else the extension
\* before the query, else a format parameter, else jpg; awebp and webp
\* become jpg.  (The nested-URL rules need a nested URL.)
getFileExtension(u) ==
  LET pathExt == IF UrlInfo[u].query = <<>> THEN SegExt(LastSeg(u)) ELSE ""
      typeExt == QueryValue(u, {"type"}, AnyValue(u))
      formatExt == QueryValue(u, {"format"}, AnyValue(u))
      fullExt == SegExt(LastSeg(u))
      paramExt == QueryValue(u, {"cf", "fmt", "format", "type"}, FormatExts)
      extension ==
        IF pathExt # "" THEN pathExt
        ELSE IF typeExt # "" THEN typeExt
        ELSE IF formatExt # "" THEN formatExt
        ELSE IF fullExt # "" THEN fullExt
        ELSE IF paramExt # "" THEN paramExt
        ELSE "jpg"
  IN IF extension \in {"awebp", "webp"} THEN "jpg" ELSE extension

\* The extension after sniffing (imageProcessor.ts 201-251).
resolvedExtensionFromUrl(u, b) == getFileExtension(u)

resolvedExtension(u, b) ==
  LET fromUrl == getFileExtension(u)
      sniffed == detectedExtension(b)
      e1 == IF sniffed # "" /\ sniffed # fromUrl THEN sniffed ELSE fromUrl
      e2 == IF e1 = "" THEN "jpg" ELSE e1
  IN IF e2 = "awebp" THEN "jpg" ELSE e2

\* --------------------------------------------------------------- file names
BadChars == {"\\", "/", ":", "*", "?", "\"", "<", ">", "|"}

sanitizeFilename(name) ==
  [i \in DOMAIN name |-> IF name[i] \in BadChars THEN "_" ELSE name[i]]

HasDot(name) == \E i \in DOMAIN name : name[i] = "."

\* A segment that looks like a hash or an id: /^[0-9a-f]{8,}$/i or /^\d+$/.
IdLikePieces == {"12345", "deadbeef01"}

IdLike(seg) == Len(seg) = 1 /\ seg[1] \in IdLikePieces

\* segment.replace(/\.[^.]+$/, ''): the segment without its last extension.
StripExt(seg) ==
  IF Len(seg) >= 2 /\ seg[Len(seg) - 1] = "." /\ seg[Len(seg)] # "."
  THEN SubSeq(seg, 1, Len(seg) - 2) ELSE seg

RECURSIVE JoinDash(_)
JoinDash(labels) ==
  IF Len(labels) = 0 THEN <<>>
  ELSE IF Len(labels) = 1 THEN <<labels[1]>>
  ELSE <<labels[1], "-">> \o JoinDash(Tail(labels))

\* The last path segment that is not id-like, without its extension; the
\* hostname with dashes for dots when there is none.
meaningfulName(u) ==
  LET segs == UrlInfo[u].segs
      good == {i \in DOMAIN segs : ~IdLike(segs[i])}
      fromPath == IF good = {} THEN <<>>
                  ELSE StripExt(segs[CHOOSE i \in good : \A j \in good : j <= i])
  IN IF fromPath # <<>> THEN fromPath ELSE JoinDash(UrlInfo[u].host)

\* imageProcessor.ts 264-328.  The names of the model are shorter than 30
\* characters, so the truncation leaves them as they are.
generateFilename(u, data, ext, useMD5) ==
  LET hash == calculateMD5(data)
      name == sanitizeFilename(meaningfulName(u))
      hashed == IF name # <<>> THEN name \o <<"-", hash[1], ".", ext>>
                ELSE hash \o <<".", ext>>
      orig == sanitizeFilename(LastSeg(u))
      fn == IF useMD5 THEN hashed
            ELSE IF ~HasDot(orig) THEN orig \o <<".", ext>> ELSE orig
  IN IF ~HasDot(fn) THEN fn \o <<".", ext>> ELSE fn

\* `${basePath}/${filename}`
localPathOf(basePath, filename) == basePath \o <<filename>>

IsPrefix(s, t) == Len(s) <= Len(t) /\ SubSeq(t, 1, Len(s)) = s

\* The path the Markdown branch writes (imageProcessor.ts 115-123): the
\* local path without the note's folder; the local path itself without a
\* note.
markdownImagePath(localPath, hasFile, noteDir) ==
  IF hasFile /\ IsPrefix(noteDir, localPath)
  THEN SubSeq(localPath, Len(noteDir) + 1, Len(localPath))
  ELSE localPath

\* The path the HTML branch writes (imageProcessor.ts 158):
\* localPath.split('/').pop().
htmlImagePath(localPath, hasFile, noteDir) ==
  <<localPath[Len(localPath)]>>

\* ------------------------------------------------------------------ tokens
Tok(k, v) == [k |-> k, v |-> v]

Bang == Tok("bang", <<>>)
Mid == Tok("mid", <<>>)
Rp == Tok("rp", <<>>)
Lb == Tok("lb", <<>>)
ImgOpen == Tok("img", <<>>)
Gt == Tok("gt", <<>>)
Txt(t) == Tok("txt", << <<t>> >>)
Url(u) == Tok("url", << <<u>> >>)
Src(u) == Tok("src", << <<u>> >>)
Alt(t) == Tok("alt", << <<t>> >>)
Loc(path) == Tok("loc", path)

\* ![a](u)
SegMd(u) == <<Bang, Txt("a"), Mid, Url(u), Rp>>

\* [![a](u1)](u2): an image that links to u2
SegLinked(u1, u2) == <<Lb>> \o SegMd(u1) \o <<Mid, Url(u2), Rp>>

\* <img src="u" alt="h">  and  <img src="u">
SegHtmlAlt(u) == <<ImgOpen, Src(u), Alt("h"), Gt>>

SegHtml(u) == <<ImgOpen, Src(u), Gt>>

Segments ==
  { SegMd("uA"), SegMd("uI"), SegMd("uN"),
    SegLinked("uB", "uA"),
    SegHtmlAlt("uA"), SegHtml("uB"), SegHtml("uI") }

RECURSIVE DocsOfLen(_)
DocsOfLen(n) ==
  IF n = 0 THEN {<<>>}
  ELSE {d \o g : d \in DocsOfLen(n - 1), g \in Segments}

Docs == UNION {DocsOfLen(n) : n \in 1..MaxSegs}

\* ------------------------------------------------------ regular expressions
Min(S) == CHOOSE x \in S : \A y \in S : x <= y

\* IMAGE_URL_REGEX  /!\[(.*?)\]\((https?:\/\/[^\s\)]+)\)/g at token j: "](",
\* then an http(s) URL, then ")".
MdTail(s, j) ==
  /\ j + 2 <= Len(s)
  /\ s[j].k = "mid"
  /\ s[j + 1].k = "url"
  /\ s[j + 2].k = "rp"

MdEnds(s, i) == {j \in (i + 1)..Len(s) : MdTail(s, j)}

\* The matches of IMAGE_URL_REGEX in s from position p on, left to right:
\* the leftmost "![" from which the pattern can match, its alt text as short
\* as possible; the search goes on after the end of the match.
RECURSIVE IMAGE_URL_REGEX(_, _)
IMAGE_URL_REGEX(s, p) ==
  LET starts == {i \in p..Len(s) : s[i].k = "bang" /\ MdEnds(s, i) # {}}
  IN IF starts = {} THEN <<>>
     ELSE LET i == Min(starts)
              j == Min(MdEnds(s, i))
          IN << [from |-> i, to |-> j + 2,
                 text |-> SubSeq(s, i, j + 2),
                 alt |-> SubSeq(s, i + 1, j - 1),
                 url |-> s[j + 1].v[1][1]] >>
             \o IMAGE_URL_REGEX(s, j + 3)

HtmlSrcs(s, i) ==
  {j \in (i + 1)..Len(s) : s[j].k = "src" /\ \E e \in (j + 1)..Len(s) : s[e].k = "gt"}

\* match.match(/alt=["']([^"']*)["']/): the first alt attribute of the tag.
AltOf(text) ==
  LET alts == {a \in DOMAIN text : text[a].k = "alt"}
  IN IF alts = {} THEN <<>> ELSE <<Tok("txt", text[Min(alts)].v)>>

\* The matches of HTML_IMG_REGEX  /<img.*?src=["'](https?:\/\/[^\s"']+)["'].*?>/g
RECURSIVE HTML_IMG_REGEX(_, _)
HTML_IMG_REGEX(s, p) ==
  LET starts == {i \in p..Len(s) : s[i].k = "img" /\ HtmlSrcs(s, i) # {}}
  IN IF starts = {} THEN <<>>
     ELSE LET i == Min(starts)
              j == Min(HtmlSrcs(s, i))
              e == Min({x \in (j + 1)..Len(s) : s[x].k = "gt"})
          IN << [from |-> i, to |-> e,
                 text |-> SubSeq(s, i, e),
                 alt |-> AltOf(SubSeq(s, i, e)),
                 url |-> s[j].v[1][1]] >>
             \o HTML_IMG_REGEX(s, e + 1)

Matches(pass, s) ==
  IF pass = "md" THEN IMAGE_URL_REGEX(s, 1) ELSE HTML_IMG_REGEX(s, 1)

\* str.replace(regex, () => data.shift() || ''): the k-th match of the regex
\* in str gives way to the k-th element of data, to nothing when data has run
\* out or the element is empty.
RECURSIVE Splice(_, _, _, _, _)
Splice(s, ms, data, k, pos) ==
  IF k > Len(ms) THEN SubSeq(s, pos, Len(s))
  ELSE SubSeq(s, pos, ms[k].from - 1)
       \o (IF k <= Len(data) THEN data[k] ELSE <<>>)
       \o Splice(s, ms, data, k + 1, ms[k].to + 1)

\* `![${altText}](${imagePath})`
imageMarkdown(alt, imagePath) == <<Bang>> \o alt \o <<Mid, Loc(imagePath), Rp>>

\* ---------------------------------------------------------------- settings
DEFAULT_SETTINGS ==
  [ autoDownloadImages |-> TRUE,
    downloadOnPaste |-> TRUE,
    imageFolder |-> << <<"attachments">> >>,
    useMD5ForFilenames |-> TRUE,
    convertPngToJpeg |-> FALSE,
    maxDownloadRetries |-> 3,
    ignoredDomains |-> <<>> ]

\* The notes of the model: notes/n.md under the default settings with
\* "ignored.com" ignored, and n.md in the vault's root under the same
\* settings with original names and PNG-to-JPEG conversion.
Configs ==
  { [ settings |-> [DEFAULT_SETTINGS EXCEPT !.ignoredDomains = << <<"ignored", ".", "com">> >>],
      noteDir |-> << <<"notes">> >> ],
    [ settings |-> [DEFAULT_SETTINGS EXCEPT !.ignoredDomains = << <<"ignored", ".", "com">> >>,
                                            !.useMD5ForFilenames = FALSE,
                                            !.convertPngToJpeg = TRUE],
      noteDir |-> <<>> ] }

\* ------------------------------------------------------------------- state
VARIABLES
  settings,     \* this.settings
  noteDir,      \* file.path up to its last "/"
  vaultDoc,     \* the text of the note in the vault
  files,        \* the image files of the vault: path -> bytes
  folders,      \* the folders of the vault
  pc,           \* where processFile stands: idle, ensure, md, html, modify
  readContent,  \* processMarkdownFile: content
  content,      \* replaceAsync: str, the text the running pass works on
  jobs,         \* replaceAsync: promises, one per match of the running pass
  outOfOrder,   \* a match of the running pass settled before an earlier one
  stats,        \* processMarkdownFile: stats
  hist,         \* the settled matches of the finished passes of this call
  built,        \* the last text replaceAsync built, from what and after what
  netLog,       \* the URLs this call started a download for
  writeLog,     \* the URLs this call called createBinary for
  justSettled,  \* the last step settled a match by a download or a store
  call,         \* the calls of the entry points: how many, how the last went
  dl,           \* the downloadImage calls of the fetcher specification
  batch,        \* processAllFiles: the notes, its loop, the processFile calls
  naming,       \* downloadAndSaveImage from the bytes to the file name, alone
  probe,        \* the calls of the URL predicates of utils.ts and their answers
  plugin        \* the event handlers the plugin has registered, the events since

vars == << settings, noteDir, vaultDoc, files, folders, pc, readContent, content,
           jobs, outOfOrder, stats, hist, built, netLog, writeLog, justSettled,
           call, dl, batch, naming, probe, plugin >>

ZeroStats == [total |-> 0, downloaded |-> 0, failed |-> 0, skipped |-> 0]

NoFiles == [p \in {} |-> ""]

NoBuild == [pass |-> "none", input |-> <<>>, results |-> <<>>, outcome |-> <<>>,
            pending |-> 0, overtaken |-> FALSE, output |-> <<>>]

\* basePath of processContent (imageProcessor.ts 71-87), with a file.
basePathOf(dir, st) == dir \o st.imageFolder

basePath == basePathOf(noteDir, settings)

Prefixes(path) == {SubSeq(path, 1, n) : n \in 1..Len(path)}

Settled(j) == j.st \in {"nonimage", "skipped", "ok", "failed"}

InFlight(j) == j.st \in {"fetch", "convert", "exists", "write"}

Count(seq, out) == Cardinality({k \in DOMAIN seq : seq[k].st = out})

\* ------------------------------------------------- the callback of one match
\* imageProcessor.ts 95-109 (and 135-149): what the callback does before its
\* first await.
callbackStartNoIgnore(u, ignoredDomains) ==
  IF ~isLikelyImageUrl(u) THEN "nonimage" ELSE "fetch"

callbackStart(u, ignoredDomains) ==
  IF ~isLikelyImageUrl(u) THEN "nonimage"
  ELSE IF isIgnoredDomain(u, ignoredDomains) THEN "skipped"
  ELSE "fetch"

NewJob(m, st) ==
  [ m |-> m, st |-> st, data |-> "", ext |-> "", path |-> <<>>, err |-> "",
    result |-> IF st \in {"nonimage", "skipped"} THEN m.text ELSE <<>> ]

\* stats.total++ for every image-like match, stats.skipped++ for every
\* ignored one: the callbacks run one after the other up to their first await.
statsAtDispatchLate(st, js) ==
  [st EXCEPT !.skipped = @ + Count(js, "skipped"),
             !.total = @ + Count(js, "skipped")]

statsAtDispatch(st, js) ==
  [st EXCEPT !.total = @ + Count(js, "skipped") + Count(js, "fetch"),
             !.skipped = @ + Count(js, "skipped")]

\* replaceAsync, first half (imageProcessor.ts 366-371): one callback per
\* match, all started before any of them is awaited.
Dispatch(pass, s) ==
  LET ms == Matches(pass, s)
      js == [k \in DOMAIN ms |->
               NewJob(ms[k], callbackStart(ms[k].url, settings.ignoredDomains))]
  IN /\ jobs' = js
     /\ content' = s
     /\ pc' = pass
     /\ stats' = statsAtDispatch(stats, js)
     /\ netLog' = netLog \cup {js[k].m.url : k \in {x \in DOMAIN js : js[x].st = "fetch"}}
     /\ outOfOrder' = FALSE

\* stats.downloaded++ and the new text of the match (111-124, 151-160).
incDownloadedNot(st) == st

incDownloaded(st) == [st EXCEPT !.downloaded = @ + 1]

incFailed(st) == [st EXCEPT !.failed = @ + 1]

successText(pass, m, localPath, dir) ==
  IF pass = "md"
  THEN imageMarkdown(m.alt, markdownImagePath(localPath, TRUE, dir))
  ELSE imageMarkdown(m.alt, htmlImagePath(localPath, TRUE, dir))

\* `return match` of the failure branch (126-128, 162-164).
failureTextEmpty(m) == <<>>

failureText(m) == m.text

\* A match settles while one to its left is still on its way.
Overtakes(i) == \E k \in 1..(i - 1) : InFlight(jobs[k])

Succeed(i) ==
  /\ jobs' = [jobs EXCEPT ![i].st = "ok",
                ![i].result = successText(pc, jobs[i].m, jobs[i].path, noteDir)]
  /\ stats' = incDownloaded(stats)
  /\ outOfOrder' = (outOfOrder \/ Overtakes(i))
  /\ justSettled' = TRUE

Fail(i, why) ==
  /\ jobs' = [jobs EXCEPT ![i].st = "failed", ![i].err = why,
                          ![i].result = failureText(jobs[i].m)]
  /\ stats' = incFailed(stats)
  /\ outOfOrder' = (outOfOrder \/ Overtakes(i))
  /\ justSettled' = TRUE

\* The file name and the local path (264-334), then `await exists`.
ToExists(i, data, ext) ==
  /\ jobs' = [jobs EXCEPT
       ![i].st = "exists", ![i].data = data, ![i].ext = ext,
       ![i].path = localPathOf(basePath,
                     generateFilename(jobs[i].m.url, data, ext,
                                      settings.useMD5ForFilenames))]
  /\ UNCHANGED << stats, outOfOrder >>
  /\ justSettled' = FALSE

\* -------------------------------------------------------------- processFile
IdleDl == [c \in {} |-> 0]

IdleBatch == [registered |-> FALSE, imgs |-> <<>>, next |-> 0, calls |-> <<>>]

IdleNaming == [step |-> "idle", url |-> "uA", data0 |-> "bJ", data |-> "bJ",
               useMD5 |-> TRUE, convert |-> FALSE, resolved |-> "", ext |-> "",
               filename |-> <<>>]

NotLoaded == [loaded |-> FALSE,
              handlers |-> [modify |-> 0, create |-> 0, paste |-> 0],
              log |-> <<>>]

NoCall == [n |-> 0, entry |-> "none", prev |-> "none", files0 |-> {},
           folders0 |-> {}, settings0 |-> DEFAULT_SETTINGS, wrote |-> FALSE,
           returned |-> "none", doc0 |-> <<>>, writes |-> 0]

\* A file that is in the image folder before the first call: full.png, with
\* bytes that are not those of any URL of the model.
OldFile(dir, st) == localPathOf(basePathOf(dir, st), <<"full", ".", "png">>) :> "bX"

Init ==
  /\ \E c \in Configs : settings = c.settings /\ noteDir = c.noteDir
  /\ vaultDoc \in Docs
  /\ \/ files = NoFiles /\ folders = Prefixes(noteDir)
     \/ /\ files = OldFile(noteDir, settings)
        /\ folders = Prefixes(noteDir) \cup Prefixes(basePath)
  /\ pc = "idle"
  /\ readContent = <<>>
  /\ content = <<>>
  /\ jobs = <<>>
  /\ outOfOrder = FALSE
  /\ stats = ZeroStats
  /\ hist = <<>>
  /\ built = NoBuild
  /\ netLog = {}
  /\ writeLog = {}
  /\ justSettled = FALSE
  /\ call = NoCall
  /\ dl = IdleDl
  /\ batch = IdleBatch
  /\ naming = IdleNaming
  /\ probe = <<>>
  /\ plugin = NotLoaded

\* How the call that has just returned went: clean when it returned its
\* statistics and none of its matches failed.
Verdict ==
  IF call.returned = "none" THEN "none"
  ELSE IF call.returned = "yes" /\ stats.failed = 0 THEN "clean"
  ELSE "dirty"

\* processFile up to `await vault.read(file)` (main.ts 213-218,
\* imageProcessor.ts 38-50) and on to `await ensureFolderExists`.
ProcessFile(limit) ==
  /\ pc = "idle"
  /\ call.n < limit
  /\ pc' = "ensure"
  /\ readContent' = vaultDoc
  /\ content' = vaultDoc
  /\ stats' = ZeroStats
  /\ jobs' = <<>>
  /\ outOfOrder' = FALSE
  /\ hist' = <<>>
  /\ built' = NoBuild
  /\ justSettled' = FALSE
  /\ netLog' = {}
  /\ writeLog' = {}
  /\ call' = [n |-> call.n + 1, entry |-> "file", prev |-> Verdict,
              files0 |-> DOMAIN files, folders0 |-> folders,
              settings0 |-> settings, wrote |-> FALSE, returned |-> "no",
              doc0 |-> IF call.n = 0 THEN vaultDoc ELSE call.doc0,
              writes |-> call.writes]
  /\ UNCHANGED << settings, noteDir, vaultDoc, files, folders, dl, batch, naming, probe, plugin >>

\* One call of processFile.
ProcessFileStart == ProcessFile(1)

\* A call of processFile after another has returned.
ProcessFileAgain == ProcessFile(MaxRuns)

\* ensureFolderExists creates the missing folders of basePath; the Markdown
\* pass starts (imageProcessor.ts 90-93).
EnsureFolderExists ==
  /\ pc = "ensure"
  /\ folders' = folders \cup Prefixes(basePath)
  /\ Dispatch("md", content)
  /\ justSettled' = FALSE
  /\ UNCHANGED << settings, noteDir, vaultDoc, files, readContent, hist, built,
                  writeLog, call, dl, batch, naming, probe, plugin >>

\* createFolder throws: processContent rejects and processFile's catch
\* returns null (main.ts 243-251).
EnsureFolderDenied ==
  /\ pc = "ensure"
  /\ call.entry = "file"
  /\ ~(Prefixes(basePath) \subseteq folders)
  /\ pc' = "idle"
  /\ call' = [call EXCEPT !.returned = "error"]
  /\ justSettled' = FALSE
  /\ UNCHANGED << settings, noteDir, vaultDoc, files, folders, readContent, content,
                  jobs, outOfOrder, stats, hist, built, netLog, writeLog, dl, batch, naming, probe, plugin >>

Passing == pc \in {"md", "html"}

jobFrame == << settings, noteDir, vaultDoc, folders, pc, readContent, content,
               hist, built, netLog, call, dl, batch, naming, probe, plugin >>

\* downloadImage returned bytes (imageProcessor.ts 188-262): the extension is
\* resolved; a PNG goes to the converter when the setting asks for it.
DownloadReturns(i) ==
  /\ Passing /\ i \in DOMAIN jobs /\ jobs[i].st = "fetch"
  /\ LET data == RemoteBytes[jobs[i].m.url]
         ext == resolvedExtension(jobs[i].m.url, data)
     IN IF settings.convertPngToJpeg /\ ext = "png"
        THEN /\ jobs' = [jobs EXCEPT ![i].st = "convert", ![i].data = data,
                                     ![i].ext = ext]
             /\ justSettled' = FALSE
             /\ UNCHANGED << stats, outOfOrder >>
        ELSE ToExists(i, data, ext)
  /\ UNCHANGED jobFrame
  /\ UNCHANGED << files, writeLog >>

\* downloadImage returned null (imageProcessor.ts 194-199, 125-129).
DownloadFails(i) ==
  /\ Passing /\ i \in DOMAIN jobs /\ jobs[i].st = "fetch"
  /\ Fail(i, "download")
  /\ UNCHANGED jobFrame
  /\ UNCHANGED << files, writeLog >>

\* convertPngToJpeg resolved (imageProcessor.ts 256-257).
ConvertReturns(i) ==
  /\ Passing /\ i \in DOMAIN jobs /\ jobs[i].st = "convert"
  /\ ToExists(i, convertPngToJpeg(jobs[i].data), "jpg")
  /\ UNCHANGED jobFrame
  /\ UNCHANGED << files, writeLog >>

\* convertPngToJpeg rejected: the original PNG goes on (258-261).
ConvertFails(i) ==
  /\ Passing /\ i \in DOMAIN jobs /\ jobs[i].st = "convert"
  /\ ToExists(i, jobs[i].data, jobs[i].ext)
  /\ UNCHANGED jobFrame
  /\ UNCHANGED << files, writeLog >>

\* `await vault.adapter.exists(localPath)` resolved (336-343): an existing
\* file is success, otherwise createBinary is called.
ExistsReturns(i) ==
  /\ Passing /\ i \in DOMAIN jobs /\ jobs[i].st = "exists"
  /\ IF jobs[i].path \in DOMAIN files
     THEN Succeed(i) /\ UNCHANGED writeLog
     ELSE /\ jobs' = [jobs EXCEPT ![i].st = "write"]
          /\ writeLog' = writeLog \cup {jobs[i].m.url}
          /\ justSettled' = FALSE
          /\ UNCHANGED << stats, outOfOrder >>
  /\ UNCHANGED jobFrame
  /\ UNCHANGED files

\* vault.createBinary(path, data) on the files fs, when it succeeds: one
\* more file, the others as they were.
createBinaryAlone(fs, path, data) == path :> data

createBinary(fs, path, data) == fs @@ (path :> data)

\* vault.createBinary resolved: the file is there (343-345).
CreateBinaryReturns(i) ==
  /\ Passing /\ i \in DOMAIN jobs /\ jobs[i].st = "write"
  /\ jobs[i].path \notin DOMAIN files
  /\ files' = createBinary(files, jobs[i].path, jobs[i].data)
  /\ Succeed(i)
  /\ UNCHANGED jobFrame
  /\ UNCHANGED writeLog

\* vault.createBinary rejected, because the file exists by now ("exists")
\* or because the write was denied ("storage") (346-351).
CreateBinaryFails(i) ==
  /\ Passing /\ i \in DOMAIN jobs /\ jobs[i].st = "write"
  /\ Fail(i, IF jobs[i].path \in DOMAIN files THEN "exists" ELSE "storage")
  /\ UNCHANGED jobFrame
  /\ UNCHANGED << files, writeLog >>

\* `await Promise.all(promises)` (imageProcessor.ts 372): every promise has
\* settled; the results come in the order of the promises.
PromiseAllReady(js) == \A k \in DOMAIN js : Settled(js[k])

PromiseAllReversed(js) == [k \in DOMAIN js |-> js[Len(js) + 1 - k].result]

PromiseAll(js) == [k \in DOMAIN js |-> js[k].result]

\* replaceAsync, second half (372-373).
replaceAsyncBuild(pass, str, data) == Splice(str, Matches(pass, str), data, 1, 1)

Summary(js) == [k \in DOMAIN js |-> [url |-> js[k].m.url, st |-> js[k].st]]

BuildRecord(out) ==
  [ pass |-> pc, input |-> content, results |-> [k \in DOMAIN jobs |-> jobs[k].result],
    outcome |-> [k \in DOMAIN jobs |-> [st |-> jobs[k].st, err |-> jobs[k].err]],
    pending |-> Cardinality({k \in DOMAIN jobs : ~Settled(jobs[k])}),
    overtaken |-> outOfOrder,
    output |-> out ]

\* The Markdown pass is over; the HTML pass starts on its text (130-133).
MdPassDone ==
  /\ pc = "md"
  /\ PromiseAllReady(jobs)
  /\ LET out == replaceAsyncBuild("md", content, PromiseAll(jobs))
     IN /\ built' = BuildRecord(out)
        /\ Dispatch("html", out)
  /\ hist' = hist \o Summary(jobs)
  /\ justSettled' = FALSE
  /\ UNCHANGED << settings, noteDir, vaultDoc, files, folders, readContent, writeLog,
                  call, dl, batch, naming, probe, plugin >>

\* A write whenever a match was counted.
shouldModifyOnTotal(st) == st.total > 0

\* `if (stats.downloaded > 0)` (main.ts 221).
shouldModify(st) == st.downloaded > 0

\* The HTML pass is over: processContent and processMarkdownFile return;
\* processFile writes the note when stats.downloaded > 0 (main.ts 220-242).
HtmlPassDone ==
  /\ pc = "html"
  /\ call.entry = "file"
  /\ PromiseAllReady(jobs)
  /\ LET out == replaceAsyncBuild("html", content, PromiseAll(jobs))
     IN /\ built' = BuildRecord(out)
        /\ content' = out
  /\ pc' = IF shouldModify(stats) THEN "modify" ELSE "idle"
  /\ call' = [call EXCEPT !.returned = IF shouldModify(stats) THEN "no" ELSE "yes"]
  /\ hist' = hist \o Summary(jobs)
  /\ jobs' = <<>>
  /\ outOfOrder' = FALSE
  /\ justSettled' = FALSE
  /\ UNCHANGED << settings, noteDir, vaultDoc, files, folders, readContent, stats,
                  netLog, writeLog, dl, batch, naming, probe, plugin >>

\* `await this.app.vault.modify(file, content)` (main.ts 222).
VaultModify ==
  /\ pc = "modify"
  /\ vaultDoc' = content
  /\ pc' = "idle"
  /\ call' = [call EXCEPT !.wrote = TRUE, !.returned = "yes", !.writes = @ + 1]
  /\ justSettled' = FALSE
  /\ UNCHANGED << settings, noteDir, files, folders, readContent, content, jobs,
                  outOfOrder, stats, hist, built, netLog, writeLog, dl, batch, naming, probe, plugin >>

MaxJobs == 2 * MaxSegs

\* The steps of processContent that every entry point shares.
Pipeline ==
  \/ EnsureFolderExists
  \/ \E i \in 1..MaxJobs : DownloadReturns(i)
  \/ \E i \in 1..MaxJobs : DownloadFails(i)
  \/ \E i \in 1..MaxJobs : ConvertReturns(i)
  \/ \E i \in 1..MaxJobs : ConvertFails(i)
  \/ \E i \in 1..MaxJobs : ExistsReturns(i)
  \/ \E i \in 1..MaxJobs : CreateBinaryReturns(i)
  \/ \E i \in 1..MaxJobs : CreateBinaryFails(i)
  \/ MdPassDone

Steps ==
  \/ Pipeline
  \/ EnsureFolderDenied
  \/ HtmlPassDone
  \/ VaultModify

Next == ProcessFileStart \/ Steps

\* One processFile call on a note.
Spec == Init /\ [][Next]_vars

NextAgain == ProcessFileAgain \/ Steps

\* Up to MaxRuns processFile calls on the same note, one after the other.
SpecAgain == Init /\ [][NextAgain]_vars

\* ------------------------------------------------------- the 'modify' loop
\* A note is modified from outside with the 'modify' handler registered:
\* fileModifyHandler calls processFile (main.ts 64-68).
ExternalModification ==
  /\ settings.autoDownloadImages
  /\ call.n = 0
  /\ ProcessFile(1)

\* The write of a call fires 'modify' and the handler calls processFile
\* again (main.ts 222, 64-68).
ModifyEvent ==
  /\ settings.autoDownloadImages
  /\ call.n > 0
  /\ pc = "idle" /\ call.wrote /\ call.returned = "yes"
  /\ ProcessFile(MaxRuns + 1)

NextLoop == ExternalModification \/ ModifyEvent \/ Steps

SpecLoop == Init /\ [][NextLoop]_vars

\* ------------------------------------------------------------ the settings tab
\* The toggles of the settings tab (settings.ts 92-113): onChange assigns to
\* the field of this.plugin.settings, the object the running operations hold.
\* Here: while a match of the running call is on its way.
SettingsChange ==
  /\ \E i \in DOMAIN jobs : InFlight(jobs[i])
  /\ \/ settings' = [settings EXCEPT !.useMD5ForFilenames = ~@]
     \/ settings' = [settings EXCEPT !.convertPngToJpeg = ~@]
  /\ UNCHANGED << noteDir, vaultDoc, files, folders, pc, readContent, content,
                  jobs, outOfOrder, stats, hist, built, netLog, writeLog,
                  justSettled, call, dl, batch, naming, probe, plugin >>

NextSettings == Next \/ SettingsChange

\* One processFile call while the settings tab is open.
SpecSettings == Init /\ [][NextSettings]_vars

\* --------------------------------------------------------------- handlePaste
\* What the clipboard may hold: a piece of a note, plain text, or one URL.
PasteTexts == Docs \cup {<<Txt("a")>>, <<Url("uA")>>, <<Url("uN")>>}

\* IMAGE_URL_REGEX.test(pastedText) || HTML_IMG_REGEX.test(pastedText)
\* (main.ts 277).
hasImageUrls(text) == Matches("md", text) # <<>> \/ Matches("html", text) # <<>>

\* pastedText.trim().startsWith('http') && isLikelyImageUrl(...) (main.ts 280).
isDirectImageUrl(text) ==
  Len(text) = 1 /\ text[1].k = "url" /\ isLikelyImageUrl(text[1].v[1][1])

\* The text handlePaste hands to processContent (main.ts 297-315).
pasteInput(text) ==
  IF isDirectImageUrl(text) /\ ~hasImageUrls(text)
  THEN <<Bang, Txt("image"), Mid, text[1], Rp>>
  ELSE text

\* handlePaste up to `await processContent` and in it to
\* `await ensureFolderExists`; without image the paste is left to the editor
\* (main.ts 260-315).
HandlePaste ==
  /\ pc = "idle"
  /\ call.n < 1
  /\ \E text \in PasteTexts :
       /\ readContent' = text
       /\ content' = pasteInput(text)
       /\ IF hasImageUrls(text) \/ isDirectImageUrl(text)
          THEN /\ pc' = "ensure"
               /\ call' = [n |-> call.n + 1, entry |-> "paste", prev |-> Verdict,
                           files0 |-> DOMAIN files, folders0 |-> folders,
                           settings0 |-> settings, wrote |-> FALSE,
                           returned |-> "no", doc0 |-> <<>>, writes |-> 0]
          ELSE /\ pc' = "idle"
               /\ call' = [n |-> call.n + 1, entry |-> "paste", prev |-> Verdict,
                           files0 |-> DOMAIN files, folders0 |-> folders,
                           settings0 |-> settings, wrote |-> FALSE,
                           returned |-> "default", doc0 |-> <<>>, writes |-> 0]
  /\ stats' = ZeroStats
  /\ jobs' = <<>>
  /\ outOfOrder' = FALSE
  /\ hist' = <<>>
  /\ built' = NoBuild
  /\ justSettled' = FALSE
  /\ netLog' = {}
  /\ writeLog' = {}
  /\ UNCHANGED << settings, noteDir, vaultDoc, files, folders, dl, batch, naming, probe, plugin >>

\* createFolder throws in processContent: nothing in handlePaste catches it,
\* the promise of the handler rejects after evt.preventDefault() and before
\* editor.replaceSelection (main.ts 284-318).
PasteRejects ==
  /\ pc = "ensure"
  /\ call.entry = "paste"
  /\ ~(Prefixes(basePath) \subseteq folders)
  /\ pc' = "idle"
  /\ call' = [call EXCEPT !.returned = "rejected"]
  /\ justSettled' = FALSE
  /\ UNCHANGED << settings, noteDir, vaultDoc, files, folders, readContent, content,
                  jobs, outOfOrder, stats, hist, built, netLog, writeLog, dl, batch, naming, probe, plugin >>

\* The HTML pass is over: editor.replaceSelection(processedText)
\* (main.ts 318-328).
PasteInsert ==
  /\ pc = "html"
  /\ call.entry = "paste"
  /\ PromiseAllReady(jobs)
  /\ LET out == replaceAsyncBuild("html", content, PromiseAll(jobs))
     IN /\ built' = BuildRecord(out)
        /\ content' = out
  /\ pc' = "idle"
  /\ call' = [call EXCEPT !.wrote = TRUE, !.returned = "yes"]
  /\ hist' = hist \o Summary(jobs)
  /\ jobs' = <<>>
  /\ outOfOrder' = FALSE
  /\ justSettled' = FALSE
  /\ UNCHANGED << settings, noteDir, vaultDoc, files, folders, readContent, stats,
                  netLog, writeLog, dl, batch, naming, probe, plugin >>

\* The editor is open on an empty note.
InitPaste ==
  /\ \E c \in Configs : settings = c.settings /\ noteDir = c.noteDir
  /\ vaultDoc = <<>>
  /\ \/ files = NoFiles /\ folders = Prefixes(noteDir)
     \/ /\ files = OldFile(noteDir, settings)
        /\ folders = Prefixes(noteDir) \cup Prefixes(basePath)
  /\ pc = "idle"
  /\ readContent = <<>>
  /\ content = <<>>
  /\ jobs = <<>>
  /\ outOfOrder = FALSE
  /\ stats = ZeroStats
  /\ hist = <<>>
  /\ built = NoBuild
  /\ netLog = {}
  /\ writeLog = {}
  /\ justSettled = FALSE
  /\ call = NoCall
  /\ dl = IdleDl
  /\ batch = IdleBatch
  /\ naming = IdleNaming
  /\ probe = <<>>
  /\ plugin = NotLoaded

NextPaste == HandlePaste \/ Pipeline \/ PasteRejects \/ PasteInsert

\* One paste into the editor of a note.
SpecPaste == InitPaste /\ [][NextPaste]_vars

\* ---------------------------------------------------------- downloadImage
\* The fetcher (utils.ts 80-128), two calls side by side, as replaceAsync
\* starts them.  Of one call: retries; attempts (the counter of the loop);
\* phase: idle, fetch (`await fetch`), body (`await response.arrayBuffer()`),
\* wait (the backoff), bytes and null (returned); timer: the setTimeout of the
\* running attempt; log: what the call has done so far.
DlCalls == {1, 2}

BackoffMs == 1000

Ev(e, ms) == [e |-> e, ms |-> ms]

NewDl(retries) ==
  [ retries |-> retries, attempts |-> 0, phase |-> "idle", timer |-> "none",
    inflight |-> 0, log |-> <<>> ]

\* The body of the loop up to `await fetch(...)` (utils.ts 89-105): a new
\* controller, a new timer, the request.
startAttempt(d) ==
  IF d.attempts < d.retries
  THEN [d EXCEPT !.phase = "fetch", !.timer = "armed", !.inflight = @ + 1,
                 !.log = Append(@, Ev("issue", 0))]
  ELSE [d EXCEPT !.phase = "null"]

\* The catch block (utils.ts 115-124): attempts++; null when the attempts
\* are used up, otherwise the backoff.
onAttemptFailedNoWait(d) ==
  LET e == [d EXCEPT !.attempts = @ + 1, !.inflight = @ - 1,
                     !.log = Append(@, Ev("fail", 0))]
  IN IF e.attempts >= e.retries THEN [e EXCEPT !.phase = "null"]
     ELSE [e EXCEPT !.phase = "fetch", !.timer = "armed", !.inflight = @ + 1,
                    !.log = Append(@, Ev("issue", 0))]

onAttemptFailedOneMore(d) ==
  LET e == [d EXCEPT !.attempts = @ + 1, !.inflight = @ - 1,
                     !.log = Append(@, Ev("fail", 0))]
  IN IF e.attempts > e.retries THEN [e EXCEPT !.phase = "null"]
     ELSE [e EXCEPT !.phase = "wait", !.log = Append(@, Ev("wait", BackoffMs))]

onAttemptFailed(d) ==
  LET e == [d EXCEPT !.attempts = @ + 1, !.inflight = @ - 1,
                     !.log = Append(@, Ev("fail", 0))]
  IN IF e.attempts >= e.retries THEN [e EXCEPT !.phase = "null"]
     ELSE [e EXCEPT !.phase = "wait", !.log = Append(@, Ev("wait", BackoffMs))]

\* clearTimeout(timeoutId) once fetch has resolved (utils.ts 107).
onResponse(d) == [d EXCEPT !.timer = "cleared"]

InitDownload ==
  /\ \E r \in 1..MaxRetries :
       /\ settings = [DEFAULT_SETTINGS EXCEPT !.maxDownloadRetries = r]
       /\ dl = [c \in DlCalls |-> NewDl(r)]
  /\ noteDir = <<>>
  /\ vaultDoc = <<>>
  /\ files = NoFiles
  /\ folders = {}
  /\ pc = "idle"
  /\ readContent = <<>>
  /\ content = <<>>
  /\ jobs = <<>>
  /\ outOfOrder = FALSE
  /\ stats = ZeroStats
  /\ hist = <<>>
  /\ built = NoBuild
  /\ netLog = {}
  /\ writeLog = {}
  /\ justSettled = FALSE
  /\ call = NoCall
  /\ batch = IdleBatch
  /\ naming = IdleNaming
  /\ probe = <<>>
  /\ plugin = NotLoaded

mainVars == << settings, noteDir, vaultDoc, files, folders, pc, readContent,
               content, jobs, outOfOrder, stats, hist, built, netLog, writeLog,
               justSettled, call, batch, naming, probe, plugin >>

\* downloadImage(url, timeout, retries) is called.
CallDownload(c) ==
  /\ dl[c].phase = "idle"
  /\ dl' = [dl EXCEPT ![c] = startAttempt(dl[c])]
  /\ UNCHANGED mainVars

\* fetch resolves with a 2xx response: the timer is cleared and the body is
\* awaited (utils.ts 107-114).
ResponseOk(c) ==
  /\ dl[c].phase = "fetch"
  /\ dl' = [dl EXCEPT ![c] = [onResponse(dl[c]) EXCEPT !.phase = "body"]]
  /\ UNCHANGED mainVars

\* fetch resolves with another status: the timer is cleared, the attempt
\* throws (utils.ts 107-111).
ResponseNotOk(c) ==
  /\ dl[c].phase = "fetch"
  /\ dl' = [dl EXCEPT ![c] = onAttemptFailed(onResponse(dl[c]))]
  /\ UNCHANGED mainVars

\* fetch rejects with a network error; the timer of the attempt stays set.
FetchRejects(c) ==
  /\ dl[c].phase = "fetch"
  /\ dl' = [dl EXCEPT ![c] = onAttemptFailed(dl[c])]
  /\ UNCHANGED mainVars

\* The timer fires while fetch is awaited: controller.abort() rejects it
\* (utils.ts 93-96).
TimeoutFires(c) ==
  /\ dl[c].phase = "fetch"
  /\ dl[c].timer = "armed"
  /\ dl' = [dl EXCEPT ![c] = onAttemptFailed([dl[c] EXCEPT !.timer = "fired"])]
  /\ UNCHANGED mainVars

\* response.arrayBuffer() resolves: the call returns the bytes.
BodyArrives(c) ==
  /\ dl[c].phase = "body"
  /\ dl' = [dl EXCEPT ![c].phase = "bytes", ![c].inflight = @ - 1,
                      ![c].log = Append(@, Ev("ok", 0))]
  /\ UNCHANGED mainVars

\* response.arrayBuffer() rejects.
BodyFails(c) ==
  /\ dl[c].phase = "body"
  /\ dl' = [dl EXCEPT ![c] = onAttemptFailed(dl[c])]
  /\ UNCHANGED mainVars

\* The backoff is over: the loop goes round (utils.ts 123, 89).
BackoffElapses(c) ==
  /\ dl[c].phase = "wait"
  /\ dl' = [dl EXCEPT ![c] = startAttempt([dl[c] EXCEPT
                                 !.log = Append(@, Ev("waited", 0))])]
  /\ UNCHANGED mainVars

NextDownload ==
  \E c \in DlCalls :
    \/ CallDownload(c)
    \/ ResponseOk(c)
    \/ ResponseNotOk(c)
    \/ FetchRejects(c)
    \/ TimeoutFires(c)
    \/ BodyArrives(c)
    \/ BodyFails(c)
    \/ BackoffElapses(c)

SpecDownload == InitDownload /\ [][NextDownload]_vars

\* ----------------------------------------------------------- processAllFiles
\* The batch command (main.ts 172-197) over the notes 1..MaxFiles, with the
\* modify handler of the auto-download feature registered or not
\* (main.ts 64-69, 105-123).  Of a note only the number of its remote images
\* counts here; of a processFile call: the note, who started it, where it
\* stands (read: `await vault.read`; fetch: downloads and writes on their
\* way; modify: `await vault.modify`; done), how many images it saw, how
\* many are on their way, how many it has downloaded.
fileVars == << settings, noteDir, vaultDoc, files, folders, pc, readContent,
               content, jobs, outOfOrder, stats, hist, built, netLog, writeLog,
               justSettled, call, dl, naming, probe, plugin >>

NewCall(f, by) == [file |-> f, by |-> by, st |-> "read", seen |-> 0, left |-> 0, got |-> 0]

InitAll ==
  /\ \E r \in BOOLEAN :
       /\ settings = [DEFAULT_SETTINGS EXCEPT !.autoDownloadImages = r]
       /\ \E im \in [1..MaxFiles -> 0..MaxImgs] :
            batch = [registered |-> r, imgs |-> im, next |-> 1, calls |-> <<>>]
  /\ noteDir = <<>>
  /\ vaultDoc = <<>>
  /\ files = NoFiles
  /\ folders = {}
  /\ pc = "idle"
  /\ readContent = <<>>
  /\ content = <<>>
  /\ jobs = <<>>
  /\ outOfOrder = FALSE
  /\ stats = ZeroStats
  /\ hist = <<>>
  /\ built = NoBuild
  /\ netLog = {}
  /\ writeLog = {}
  /\ justSettled = FALSE
  /\ call = NoCall
  /\ dl = IdleDl
  /\ naming = IdleNaming
  /\ probe = <<>>
  /\ plugin = NotLoaded

Running(by) == {c \in DOMAIN batch.calls : batch.calls[c].by = by /\ batch.calls[c].st # "done"}

\* `const result = await this.processFile(file, false)` for the next note:
\* the loop goes on when the call before has returned.
processAllFiles ==
  /\ batch.next <= Len(batch.imgs)
  /\ Running("batch") = {}
  /\ batch' = [batch EXCEPT !.next = @ + 1,
                            !.calls = Append(@, NewCall(batch.next, "batch"))]
  /\ UNCHANGED fileVars

\* vault.read resolved; processContent starts one download per image
\* (imageProcessor.ts 38-50, 93-166).
ReadReturns(c) ==
  /\ c \in DOMAIN batch.calls /\ batch.calls[c].st = "read"
  /\ LET n == batch.imgs[batch.calls[c].file]
     IN batch' = [batch EXCEPT ![ "calls" ][c] =
                    [@ EXCEPT !.seen = n, !.left = n,
                              !.st = IF n = 0 THEN "done" ELSE "fetch"]]
  /\ UNCHANGED fileVars

\* Where processFile goes when the last match has settled (main.ts 220-222).
afterLast(left, got) ==
  IF left > 0 THEN "fetch" ELSE IF got > 0 THEN "modify" ELSE "done"

\* A download of the call ends with the image stored.
ImageStored(c) ==
  /\ c \in DOMAIN batch.calls /\ batch.calls[c].st = "fetch"
  /\ batch' = [batch EXCEPT ![ "calls" ][c] =
                 [@ EXCEPT !.left = @ - 1, !.got = @ + 1,
                           !.st = afterLast(batch.calls[c].left - 1,
                                            batch.calls[c].got + 1)]]
  /\ UNCHANGED fileVars

\* A download of the call ends as failed.
ImageFailed(c) ==
  /\ c \in DOMAIN batch.calls /\ batch.calls[c].st = "fetch"
  /\ batch' = [batch EXCEPT ![ "calls" ][c] =
                 [@ EXCEPT !.left = @ - 1,
                           !.st = afterLast(batch.calls[c].left - 1,
                                            batch.calls[c].got)]]
  /\ UNCHANGED fileVars

\* The calls the 'modify' event of the vault starts: fileModifyHandler calls
\* processFile(file, false) without awaiting it, when it is registered.
fileModifyHandler(registered, f) ==
  IF registered THEN <<NewCall(f, "event")>> ELSE <<>>

\* vault.modify(file, content) writes the note and the vault fires 'modify'.
VaultModifies(c) ==
  /\ c \in DOMAIN batch.calls /\ batch.calls[c].st = "modify"
  /\ LET k == batch.calls[c]
     IN batch' = [batch EXCEPT
                    !.imgs[k.file] = k.seen - k.got,
                    !.calls = [@ EXCEPT ![c].st = "done"]
                                \o fileModifyHandler(batch.registered, k.file)]
  /\ UNCHANGED fileVars

MaxCalls == MaxFiles * (MaxImgs + 1)

NextAll ==
  \/ processAllFiles
  \/ \E c \in 1..MaxCalls :
       \/ ReadReturns(c)
       \/ ImageStored(c)
       \/ ImageFailed(c)
       \/ VaultModifies(c)

\* 'Save images offline for all files' on a vault of MaxFiles notes.
SpecAll == InitAll /\ [][NextAll]_vars

\* ------------------------------------------------------------------- naming
\* downloadAndSaveImage from the downloaded bytes to the file name
\* (imageProcessor.ts 201-328), for one URL, one byte content, one naming
\* policy and one conversion setting at a time.
NamingUrls == {"uA", "uB", "uW", "uS", "uD", "uQ", "uX"}

otherVars == << settings, noteDir, vaultDoc, files, folders, pc, readContent,
                content, jobs, outOfOrder, stats, hist, built, netLog, writeLog,
                justSettled, call, dl, batch, probe, plugin >>

InitNaming ==
  /\ \E u \in NamingUrls, b \in DOMAIN BytesInfo, m, c \in BOOLEAN :
       /\ naming = [IdleNaming EXCEPT !.step = "start", !.url = u, !.data0 = b,
                                      !.data = b, !.useMD5 = m, !.convert = c]
       /\ settings = [DEFAULT_SETTINGS EXCEPT !.useMD5ForFilenames = m,
                                              !.convertPngToJpeg = c]
  /\ noteDir = <<>>
  /\ vaultDoc = <<>>
  /\ files = NoFiles
  /\ folders = {}
  /\ pc = "idle"
  /\ readContent = <<>>
  /\ content = <<>>
  /\ jobs = <<>>
  /\ outOfOrder = FALSE
  /\ stats = ZeroStats
  /\ hist = <<>>
  /\ built = NoBuild
  /\ netLog = {}
  /\ writeLog = {}
  /\ justSettled = FALSE
  /\ call = NoCall
  /\ dl = IdleDl
  /\ batch = IdleBatch
  /\ probe = <<>>
  /\ plugin = NotLoaded

\* The extension from the URL and from the first bytes (201-251).
SniffExtension ==
  /\ naming.step = "start"
  /\ naming' = [naming EXCEPT
                  !.step = "sniffed",
                  !.resolved = resolvedExtension(naming.url, naming.data0),
                  !.ext = resolvedExtension(naming.url, naming.data0)]
  /\ UNCHANGED otherVars

\* The PNG-to-JPEG step when it converts (253-257).
ConvertPng ==
  /\ naming.step = "sniffed"
  /\ naming.convert /\ naming.ext = "png"
  /\ naming' = [naming EXCEPT !.step = "converted",
                              !.data = convertPngToJpeg(naming.data0),
                              !.ext = "jpg"]
  /\ UNCHANGED otherVars

\* The PNG-to-JPEG step when it is skipped or the converter throws (253-262).
KeepBytes ==
  /\ naming.step = "sniffed"
  /\ naming' = [naming EXCEPT !.step = "converted"]
  /\ UNCHANGED otherVars

\* The file name (264-328).
NameFile ==
  /\ naming.step = "converted"
  /\ naming' = [naming EXCEPT
                  !.step = "named",
                  !.filename = generateFilename(naming.url, naming.data, naming.ext,
                                                naming.useMD5)]
  /\ UNCHANGED otherVars

NextNaming == SniffExtension \/ ConvertPng \/ KeepBytes \/ NameFile

SpecNaming == InitNaming /\ [][NextNaming]_vars

\* ---------------------------------------------------------- URL predicates
\* isIgnoredDomain and isLikelyImageUrl called from outside, one call after
\* the other, each call's arguments and answer appended to probe.
MaxProbes == 2

ProbeUrls == Urls

\* The 'ignored domains' strings of the model:
\*   ""   "example.com"   " Example.COM "   "other.net, example.com"
\*   "ignored.com"   "example.com,"
IgnoreLists ==
  { <<>>,
    << <<"example", ".", "com">> >>,
    << <<" ", "Example", ".", "COM", " ">> >>,
    << <<"other", ".", "net">>, <<" ", "example", ".", "com">> >>,
    << <<"ignored", ".", "com">> >>,
    << <<"example", ".", "com">>, <<>> >> }

probeFrame == << noteDir, vaultDoc, files, folders, pc, readContent, content,
                 jobs, outOfOrder, stats, hist, built, netLog, writeLog,
                 justSettled, call, dl, batch, naming, plugin >>

InitProbe ==
  /\ \E l \in IgnoreLists :
       settings = [DEFAULT_SETTINGS EXCEPT !.ignoredDomains = l]
  /\ noteDir = <<>>
  /\ vaultDoc = <<>>
  /\ files = NoFiles
  /\ folders = {}
  /\ pc = "idle"
  /\ readContent = <<>>
  /\ content = <<>>
  /\ jobs = <<>>
  /\ outOfOrder = FALSE
  /\ stats = ZeroStats
  /\ hist = <<>>
  /\ built = NoBuild
  /\ netLog = {}
  /\ writeLog = {}
  /\ justSettled = FALSE
  /\ call = NoCall
  /\ dl = IdleDl
  /\ batch = IdleBatch
  /\ naming = IdleNaming
  /\ probe = <<>>
  /\ plugin = NotLoaded

\* isIgnoredDomain(url, this.settings.ignoredDomains) is called.
CallIsIgnoredDomain ==
  /\ Len(probe) < MaxProbes
  /\ \E u \in ProbeUrls :
       probe' = Append(probe, [fn |-> "isIgnoredDomain", url |-> u,
                               list |-> settings.ignoredDomains,
                               out |-> isIgnoredDomain(u, settings.ignoredDomains)])
  /\ UNCHANGED settings
  /\ UNCHANGED probeFrame

\* isLikelyImageUrl(url) is called.
CallIsLikelyImageUrl ==
  /\ Len(probe) < MaxProbes
  /\ \E u \in ProbeUrls :
       probe' = Append(probe, [fn |-> "isLikelyImageUrl", url |-> u,
                               list |-> <<>>,
                               out |-> isLikelyImageUrl(u)])
  /\ UNCHANGED settings
  /\ UNCHANGED probeFrame

NextProbe == CallIsIgnoredDomain \/ CallIsLikelyImageUrl

SpecProbe == InitProbe /\ [][NextProbe]_vars

\* ------------------------------------------------------ handler registration
\* onload, the two toggles of the settings tab and the events of the vault and
\* the workspace (main.ts 33-91, 105-141; settings.ts 58-76).
MaxEvents == 3

pluginFrame == << noteDir, vaultDoc, files, folders, pc, readContent, content,
                  jobs, outOfOrder, stats, hist, built, netLog, writeLog,
                  justSettled, call, dl, batch, naming, probe >>

\* vault.off / workspace.off of a handler: none of its n registrations is left.
off(n) == n - n

\* off, then registerEvent(on(...)) when the setting is on.
updateFeature(n, on) == IF on THEN off(n) + 1 ELSE off(n)

updateAutoDownloadFeature(h, st) ==
  [h EXCEPT !.modify = updateFeature(@, st.autoDownloadImages),
            !.create = updateFeature(@, st.autoDownloadImages)]

updatePasteFeature(h, st) ==
  [h EXCEPT !.paste = updateFeature(@, st.downloadOnPaste)]

\* What loadData() gives onload: the two settings as they were saved.
InitPlugin ==
  /\ \E a, p \in BOOLEAN :
       settings = [DEFAULT_SETTINGS EXCEPT !.autoDownloadImages = a,
                                           !.downloadOnPaste = p]
  /\ noteDir = <<>>
  /\ vaultDoc = <<>>
  /\ files = NoFiles
  /\ folders = {}
  /\ pc = "idle"
  /\ readContent = <<>>
  /\ content = <<>>
  /\ jobs = <<>>
  /\ outOfOrder = FALSE
  /\ stats = ZeroStats
  /\ hist = <<>>
  /\ built = NoBuild
  /\ netLog = {}
  /\ writeLog = {}
  /\ justSettled = FALSE
  /\ call = NoCall
  /\ dl = IdleDl
  /\ batch = IdleBatch
  /\ naming = IdleNaming
  /\ probe = <<>>
  /\ plugin = NotLoaded

\* onload: the handlers are made, then updateAutoDownloadFeature() and
\* updatePasteFeature() (main.ts 64-82).
Onload ==
  /\ ~plugin.loaded
  /\ plugin' = [plugin EXCEPT
                  !.loaded = TRUE,
                  !.handlers = updatePasteFeature(
                                 updateAutoDownloadFeature(@, settings), settings)]
  /\ UNCHANGED settings
  /\ UNCHANGED pluginFrame

\* The 'Auto-download images' toggle: the setting, then saveSettings(), which
\* is saveData(this.settings) (settings.ts 63-66, main.ts 148-150).
ToggleAutoDownload ==
  /\ plugin.loaded
  /\ settings' = [settings EXCEPT !.autoDownloadImages = ~@]
  /\ UNCHANGED plugin
  /\ UNCHANGED pluginFrame

\* The 'Download on paste' toggle (settings.ts 73-76).
ToggleDownloadOnPaste ==
  /\ plugin.loaded
  /\ settings' = [settings EXCEPT !.downloadOnPaste = ~@]
  /\ UNCHANGED plugin
  /\ UNCHANGED pluginFrame

\* An event of a kind reaches each handler registered for it; on: the setting
\* of that kind when the event happens; ran: the handler calls it caused.
Fire(kind, on) ==
  /\ plugin.loaded
  /\ Len(plugin.log) < MaxEvents
  /\ plugin' = [plugin EXCEPT
                  !.log = Append(@, [kind |-> kind, on |-> on,
                                     ran |-> plugin.handlers[kind]])]
  /\ UNCHANGED settings
  /\ UNCHANGED pluginFrame

\* The vault fires 'modify' for a note: fileModifyHandler, processFile.
VaultModifyEvent == Fire("modify", settings.autoDownloadImages)

\* The vault fires 'create' for a note: fileCreateHandler, processFile.
VaultCreateEvent == Fire("create", settings.autoDownloadImages)

\* The workspace fires 'editor-paste': pasteHandler, handlePaste.
EditorPasteEvent == Fire("paste", settings.downloadOnPaste)

NextPlugin ==
  \/ Onload
  \/ ToggleAutoDownload
  \/ ToggleDownloadOnPaste
  \/ VaultModifyEvent
  \/ VaultCreateEvent
  \/ EditorPasteEvent

SpecPlugin == InitPlugin /\ [][NextPlugin]_vars

\* ------------------------------------------------------------ the user edits
\* The user types at the end of the note while a processFile call is between
\* its vault.read and its vault.modify (imageProcessor.ts 39, main.ts 222).
UserEdit == Txt("edit")

HasEdit(doc) == \E k \in DOMAIN doc : doc[k] = UserEdit

UserEdits ==
  /\ pc \in {"ensure", "md", "html", "modify"}
  /\ call.entry = "file"
  /\ ~HasEdit(vaultDoc)
  /\ vaultDoc' = Append(vaultDoc, UserEdit)
  /\ UNCHANGED << settings, noteDir, files, folders, pc, readContent, content,
                  jobs, outOfOrder, stats, hist, built, netLog, writeLog,
                  justSettled, call, dl, batch, naming, probe, plugin >>

NextEdits == Next \/ UserEdits

SpecEdits == Init /\ [][NextEdits]_vars

\* ================================================================== claims
\* processContent has returned: processFile is about to write the note, or
\* has come back with the statistics.
Returned ==
  /\ call.n > 0
  /\ \/ pc = "modify"
     \/ pc = "idle" /\ call.returned = "yes"

\* The matches of the running pass and of the finished passes of the call.
Seen == hist \o Summary(jobs)

ImageLike(seq) == {k \in DOMAIN seq : isLikelyImageUrl(seq[k].url)}

Ignored(seq) ==
  {k \in ImageLike(seq) : isIgnoredDomain(seq[k].url, settings.ignoredDomains)}

With(seq, out) == {k \in DOMAIN seq : seq[k].st = out}

\* ----------------------------------------------------------------------- C1
\* C1: when processContent returns, total = downloaded + failed + skipped,
\* total is the number of image-like matches of both passes, each counter is
\* the number of image-like matches that ended that way, and a match that is
\* not image-like ended as nothing else than "not an image".
C1_StatsAtReturn ==
  Returned =>
    /\ stats.total = stats.downloaded + stats.failed + stats.skipped
    /\ stats.total = Cardinality(ImageLike(hist))
    /\ stats.downloaded = Cardinality(ImageLike(hist) \cap With(hist, "ok"))
    /\ stats.failed = Cardinality(ImageLike(hist) \cap With(hist, "failed"))
    /\ stats.skipped = Cardinality(ImageLike(hist) \cap With(hist, "skipped"))
    /\ \A k \in DOMAIN hist \ ImageLike(hist) : hist[k].st = "nonimage"

\* A call has returned from a note with a Markdown match that is no image
\* and an HTML match that failed.
C1_Witness ==
  /\ Returned
  /\ With(hist, "nonimage") # {}
  /\ With(hist, "failed") # {}
  /\ built.pass = "html" /\ Len(built.results) > 0
  /\ stats = [total |-> 1, downloaded |-> 0, failed |-> 1, skipped |-> 0]

\* ----------------------------------------------------------------------- C2
\* C2 as stated: whenever a match has just been counted as downloaded or
\* failed, total = downloaded + failed + skipped.
C2_EqualityAtEachResolution ==
  justSettled => stats.total = stats.downloaded + stats.failed + stats.skipped

\* C2, amended: total counts a match when its callback starts, so at every
\* moment total = downloaded + failed + skipped + the number of matches of the
\* running pass that are still on their way; the equality holds whenever no
\* match is on its way.
C2_EqualityUpToInFlight ==
  stats.total = stats.downloaded + stats.failed + stats.skipped
                + Cardinality({k \in DOMAIN jobs : InFlight(jobs[k])})

\* A match has just been counted while another one is still being fetched.
C2_Witness ==
  /\ justSettled
  /\ \E k \in DOMAIN jobs : jobs[k].st = "fetch"
  /\ \E k \in DOMAIN jobs : jobs[k].st \in {"ok", "failed"}

\* ----------------------------------------------------------------------- C3
\* The length the first n replacements add to the text.
RECURSIVE Growth(_, _, _)
Growth(ms, rs, n) ==
  IF n = 0 THEN 0
  ELSE Growth(ms, rs, n - 1) + Len(rs[n]) - Len(ms[n].text)

\* C3: a pass builds its text when no match of the pass is unresolved, and in
\* the text it builds the i-th match of the input, counted from the left, has
\* given way to the result of the i-th match, the text between the matches
\* being the text of the input.
C3_PositionalAfterAll ==
  built.pass # "none" =>
    LET ms == Matches(built.pass, built.input)
        rs == built.results
        n == Len(ms)
        at(i) == ms[i].from + Growth(ms, rs, i - 1)
        gapFrom(i) == IF i = 0 THEN 1 ELSE ms[i].to + 1
        gapTo(i) == IF i = n THEN Len(built.input) ELSE ms[i + 1].from - 1
    IN /\ built.pending = 0
       /\ Len(rs) = n
       /\ Len(built.output) = Len(built.input) + Growth(ms, rs, n)
       /\ \A i \in 1..n :
            SubSeq(built.output, at(i), at(i) + Len(rs[i]) - 1) = rs[i]
       /\ \A i \in 0..n :
            SubSeq(built.output, gapFrom(i) + Growth(ms, rs, i),
                   gapTo(i) + Growth(ms, rs, i))
              = SubSeq(built.input, gapFrom(i), gapTo(i))

\* A pass has built its text after a later match had settled before an
\* earlier one, with two different results.
C3_Witness ==
  /\ built.pass # "none"
  /\ built.overtaken
  /\ Len(built.results) >= 2
  /\ built.results[1] # built.results[2]
  /\ built.output # built.input

\* ----------------------------------------------------------------------- C4
\* C4: a call on a note that a call without failed match has left returns
\* the text it read, counts no download and writes neither a file nor the
\* note.
C4_Idempotent ==
  (Returned /\ call.prev = "clean") =>
    /\ content = readContent
    /\ stats.downloaded = 0
    /\ DOMAIN files = call.files0
    /\ ~call.wrote

\* ----------------------------------------------------------------------- C5
\* C5: a match counts as failed once; the result of a failed match is the
\* text the match had in the input of its pass, and that text stands in the
\* text the pass builds; the pass builds its text with every other match
\* resolved, and the call returns with all matches of both passes resolved.
C5_FailedMatchKept ==
  /\ stats.failed = Cardinality(With(Seen, "failed"))
  /\ \A i \in DOMAIN jobs :
       jobs[i].st = "failed" =>
         jobs[i].result = SubSeq(content, jobs[i].m.from, jobs[i].m.to)
  /\ built.pass # "none" =>
       LET ms == Matches(built.pass, built.input)
       IN /\ \A i \in DOMAIN built.outcome :
               /\ built.outcome[i].st \in {"nonimage", "skipped", "ok", "failed"}
               /\ built.outcome[i].st = "failed" =>
                    SubSeq(built.output,
                           ms[i].from + Growth(ms, built.results, i - 1),
                           ms[i].to + Growth(ms, built.results, i - 1))
                      = SubSeq(built.input, ms[i].from, ms[i].to)
  /\ Returned =>
       /\ Len(hist) = Len(Matches("md", readContent)) + Len(Matches("html", built.input))
       /\ \A k \in DOMAIN hist : hist[k].st \in {"nonimage", "skipped", "ok", "failed"}

\* A pass has built its text from a match whose download returned null and
\* a match that was downloaded and stored.
C5_Witness ==
  /\ built.pass # "none"
  /\ \E i, j \in DOMAIN built.outcome :
       /\ built.outcome[i] = [st |-> "failed", err |-> "download"]
       /\ built.outcome[j].st = "ok"
  /\ stats.failed = 1 /\ stats.downloaded >= 1

\* ----------------------------------------------------------------------- C6
Events(d, e) == {k \in DOMAIN d.log : d.log[k].e = e}

\* C6: a call issues at most `retries` attempts, has at most one request in
\* flight, returns the bytes right after its only successful attempt, and
\* has returned null exactly when `retries` attempts have failed.
C6_BoundedSequentialAttempts ==
  \A c \in DOMAIN dl :
    LET d == dl[c]
        issued == Cardinality(Events(d, "issue"))
        failed == Cardinality(Events(d, "fail"))
        ok == Cardinality(Events(d, "ok"))
    IN /\ issued <= d.retries
       /\ d.inflight \in {0, 1}
       /\ d.inflight = 1 <=> issued = failed + ok + 1
       /\ ok <= 1
       /\ ok = 1 <=> d.phase = "bytes"
       /\ d.phase = "bytes" => d.log[Len(d.log)].e = "ok" /\ issued = failed + 1
       /\ d.phase = "null" <=> failed = d.retries
       /\ d.phase = "null" => issued = d.retries /\ ok = 0

\* One call has returned bytes from a later attempt than its first, the
\* other has returned null after more than one attempt.
C6_Witness ==
  \E c, e \in DOMAIN dl :
    /\ dl[c].phase = "bytes" /\ dl[c].attempts >= 1
    /\ dl[e].phase = "null" /\ dl[e].retries >= 2

\* ----------------------------------------------------------------------- C7
\* C7: a failed attempt that is not the `retries`-th is followed at once by
\* a wait of 1000 ms, every attempt but the first starts when such a wait is
\* over, and the `retries`-th failed attempt is the last thing the call does
\* before it returns null.
C7_BackoffBetweenAttempts ==
  \A c \in DOMAIN dl :
    LET d == dl[c]
        nth(k) == Cardinality({x \in Events(d, "fail") : x <= k})
    IN \A k \in DOMAIN d.log :
         /\ (d.log[k].e = "fail" /\ nth(k) < d.retries) =>
              k < Len(d.log) /\ d.log[k + 1] = [e |-> "wait", ms |-> 1000]
         /\ (d.log[k].e = "issue" /\ k > 1) =>
              /\ k > 3
              /\ d.log[k - 1].e = "waited"
              /\ d.log[k - 2] = [e |-> "wait", ms |-> 1000]
              /\ d.log[k - 3].e = "fail"
         /\ (d.log[k].e = "fail" /\ nth(k) = d.retries) =>
              k = Len(d.log) /\ d.phase = "null"
         /\ d.log[k].e = "wait" => d.log[k - 1].e = "fail"

\* A call has returned null after a failed attempt, the wait, and the
\* failure of its last attempt.
C7_Witness ==
  \E c \in DOMAIN dl :
    /\ dl[c].phase = "null"
    /\ dl[c].retries >= 2
    /\ Cardinality(Events(dl[c], "wait")) = dl[c].retries - 1

\* ----------------------------------------------------------------------- C8
\* C8: as long as an attempt is in flight, waiting for the response or
\* reading its body, the timer that aborts it is set.
C8_TimeoutGuardsWholeAttempt ==
  \A c \in DOMAIN dl :
    dl[c].phase \in {"fetch", "body"} => dl[c].timer = "armed"

\* ----------------------------------------------------------------------- C9
\* C9: every URL a download was started or a file was written for is
\* image-like and not ignored; a match that is not image-like or is ignored
\* keeps its text and is never on its way; skipped is the number of ignored
\* image-like matches, and downloaded and failed count none of them.
C9_NoFetchForFiltered ==
  LET filtered == (DOMAIN Seen \ ImageLike(Seen)) \cup Ignored(Seen)
  IN /\ \A u \in netLog \cup writeLog :
          isLikelyImageUrl(u) /\ ~isIgnoredDomain(u, settings.ignoredDomains)
     /\ \A i \in DOMAIN jobs :
          (~isLikelyImageUrl(jobs[i].m.url)
             \/ isIgnoredDomain(jobs[i].m.url, settings.ignoredDomains)) =>
            /\ ~InFlight(jobs[i])
            /\ jobs[i].st \notin {"ok", "failed"}
            /\ jobs[i].result = SubSeq(content, jobs[i].m.from, jobs[i].m.to)
     /\ \A k \in filtered : Seen[k].st \in {"nonimage", "skipped"}
     /\ stats.skipped = Cardinality(Ignored(Seen))
     /\ stats.total - stats.skipped = Cardinality(ImageLike(Seen) \ Ignored(Seen))
     /\ stats.downloaded + stats.failed <= Cardinality(ImageLike(Seen) \ Ignored(Seen))

\* A call has returned from a note with an ignored image and a downloaded
\* one: one download, one file, one skip.
C9_Witness ==
  /\ Returned
  /\ Ignored(hist) # {}
  /\ Cardinality(netLog) = 1 /\ Cardinality(writeLog) = 1
  /\ stats = [total |-> 2, downloaded |-> 1, failed |-> 0, skipped |-> 1]

\* ---------------------------------------------------------------------- C10
\* The path a successful match has written into its result.
WrittenPath(j) == j.result[Len(j.result) - 1].v

\* C10: the path written for a successful match, taken from the note's
\* folder, is the path of the stored file.
C10_WrittenPathResolves ==
  \A i \in DOMAIN jobs :
    jobs[i].st = "ok" =>
      /\ noteDir \o WrittenPath(jobs[i]) = jobs[i].path
      /\ noteDir \o WrittenPath(jobs[i]) \in DOMAIN files

\* ---------------------------------------------------------------------- C11
\* C11: no match fails on a file that is present at its local path when its
\* storage step acts: such a match is counted as downloaded, so matches of
\* one pass that share a local path and fail neither the download nor a
\* denied write all end as downloaded.
C11_PresentFileIsDownloaded ==
  \A i \in DOMAIN jobs :
    jobs[i].st = "failed" => jobs[i].err \in {"download", "storage"}

\* ---------------------------------------------------------------------- C12
\* C12: no step deletes, moves or overwrites: every image file of the vault
\* is there after the step with the bytes it had, every folder is there
\* after the step, a new file is at a path that had none, and a new folder
\* is one on the way to the image folder.
C12_OnlyCreates ==
  [][ /\ \A p \in DOMAIN files : p \in DOMAIN files' /\ files'[p] = files[p]
      /\ folders \subseteq folders'
      /\ Cardinality(DOMAIN files' \ DOMAIN files) <= 1
      /\ folders' \ folders \subseteq Prefixes(basePath) ]_vars

\* A call has stored a new file next to the file that was there before it
\* started, and another match has found that older file at its own path.
C12_Witness ==
  /\ call.files0 # {}
  /\ call.files0 \subseteq DOMAIN files
  /\ DOMAIN files # call.files0
  /\ \E i \in DOMAIN jobs :
       /\ jobs[i].st = "ok"
       /\ jobs[i].path \in call.files0
       /\ files[jobs[i].path] # jobs[i].data

\* ---------------------------------------------------------------------- C13
\* C13: a call on a note none of whose matches is image-like has, when it
\* returns, started no download, created no folder and no file, counted
\* nothing and kept the text it read.
C13_MissHasNoEffect ==
  (Returned /\ ImageLike(hist) = {}) =>
    /\ netLog = {}
    /\ folders = call.folders0
    /\ DOMAIN files = call.files0
    /\ stats = ZeroStats
    /\ content = readContent
    /\ ~call.wrote

\* ---------------------------------------------------------------------- C14
\* C14: a denied folder creation or file write fails one match and no more:
\* a match whose storage failed is counted as failed and keeps its text, and
\* every call comes back with all matches of the note resolved and counted.
C14_StorageFailureIsPerMatch ==
  /\ \A i \in DOMAIN jobs :
       (jobs[i].st = "failed" /\ jobs[i].err = "storage") =>
         jobs[i].result = SubSeq(content, jobs[i].m.from, jobs[i].m.to)
  /\ stats.failed = Cardinality(With(Seen, "failed"))
  /\ (call.n > 0 /\ pc = "idle") =>
       /\ call.returned = "yes"
       /\ Len(hist) >= Len(Matches("md", readContent))
       /\ stats.total = Cardinality(ImageLike(hist))
       /\ stats.total >= Cardinality(ImageLike(Matches("md", readContent)))

\* ---------------------------------------------------------------------- C15
\* C15: no call of an entry point ends with a rejected promise: a failure
\* inside it has been caught and counted or logged.
C15_NoErrorEscapes ==
  call.returned # "rejected"

\* ---------------------------------------------------------------------- C16
\* C16: while processAllFiles runs, at most one processFile call is in
\* flight, so that a call on the next note starts only when every download
\* and write of the note before has finished.
C16_OneDocumentAtATime ==
  Cardinality({c \in DOMAIN batch.calls : batch.calls[c].st # "done"}) <= 1

\* ---------------------------------------------------------------------- C17
\* C17: a call works with the settings it started with: a match goes to the
\* PNG-to-JPEG converter only when the settings at the start of the call ask
\* for it, and the local path of a match is the one the naming policy and
\* the image folder at the start of the call give.
C17_SettingsSnapshot ==
  \A i \in DOMAIN jobs :
    /\ jobs[i].st = "convert" => call.settings0.convertPngToJpeg
    /\ jobs[i].path # <<>> =>
         jobs[i].path =
           localPathOf(basePathOf(noteDir, call.settings0),
                       generateFilename(jobs[i].m.url, jobs[i].data, jobs[i].ext,
                                        call.settings0.useMD5ForFilenames))

\* ---------------------------------------------------------------------- C18
\* The extension of each signature the code knows.
SignatureExt ==
  [png |-> "png", jpeg |-> "jpg", gif |-> "gif", riff |-> "jpg", bmp |-> "bmp"]

\* C18: once the extension is resolved, bytes that start with a PNG, JPEG,
\* GIF, RIFF or BMP signature have given the extension of that signature,
\* whatever extension the URL gives.
C18_SignatureWins ==
  (naming.step \in {"sniffed", "converted", "named"}
     /\ BytesInfo[naming.data0].sig \in DOMAIN SignatureExt) =>
    naming.resolved = SignatureExt[BytesInfo[naming.data0].sig]

\* A URL that ends in .png with bytes that start FF D8 has resolved to jpg.
C18_Witness ==
  /\ naming.step = "sniffed"
  /\ SegExt(LastSeg(naming.url)) = "png"
  /\ BytesInfo[naming.data0].sig = "jpeg"
  /\ naming.resolved = "jpg"

\* ---------------------------------------------------------------------- C19
Dots(name) == {i \in DOMAIN name : name[i] = "."}

\* C19: a file name has one "." and ends in "." and the extension that was
\* resolved for the bytes it names.
C19_OneDotResolvedExtension ==
  naming.step = "named" =>
    LET fn == naming.filename
    IN /\ Cardinality(Dots(fn)) = 1
       /\ Len(fn) >= 2
       /\ fn[Len(fn) - 1] = "."
       /\ fn[Len(fn)] = naming.ext

\* ---------------------------------------------------------------------- C20
\* C20: a file name ends in png, jpg, gif or bmp, never in webp or awebp.
C20_ExtensionInSet ==
  naming.step = "named" =>
    LET fn == naming.filename
    IN /\ Len(fn) >= 2
       /\ fn[Len(fn) - 1] = "."
       /\ fn[Len(fn)] \in {"png", "jpg", "gif", "bmp"}
       /\ fn[Len(fn)] \notin {"webp", "awebp"}

EndsAtLabel(h, e) ==
  /\ Len(e) <= Len(h)
  /\ SubSeq(h, Len(h) - Len(e) + 1, Len(h)) = e
  /\ Len(h) = Len(e) \/ h[Len(h) - Len(e)] = "."

\* C22: isIgnoredDomain answers true exactly when the URL parses, the list is
\* not empty and the host is one of its entries or ends with a dot followed by
\* one: "example.com" takes example.com and sub.example.com and leaves
\* notexample.com.
C22_IgnoredExactly ==
  \A k \in DOMAIN probe :
    probe[k].fn = "isIgnoredDomain" =>
      LET h == hostname(UrlInfo[probe[k].url].host)
          l == probe[k].list
      IN /\ probe[k].out <=>
              /\ l # <<>>
              /\ h # <<>>
              /\ \E i \in DOMAIN l : EndsAtLabel(h, toLowerCase(trim(l[i])))
         /\ l = << <<"example", ".", "com">> >> =>
              (probe[k].out <=> probe[k].url \in {"uE", "uU"})

C22_Witness ==
  \E j, k \in DOMAIN probe :
    /\ probe[j].fn = "isIgnoredDomain" /\ probe[k].fn = "isIgnoredDomain"
    /\ probe[j].list = << <<"example", ".", "com">> >>
    /\ probe[j].url = "uU" /\ probe[j].out
    /\ probe[k].url = "uO" /\ ~probe[k].out

\* ---------------------------------------------------------------------- C23
\* C23: a PNG whose conversion is on is named with extension jpg when the
\* converted bytes are kept and with extension png when the conversion failed
\* and the fetched bytes are kept; bytes that are not PNG, or any bytes with
\* the conversion off, are kept as fetched.
C23_ConversionNeverFatal ==
  naming.step = "named" =>
    LET fn == naming.filename
    IN IF naming.convert /\ naming.resolved = "png"
       THEN /\ naming.data \in {naming.data0, convertPngToJpeg(naming.data0)}
            /\ Len(fn) >= 2
            /\ fn[Len(fn) - 1] = "."
            /\ fn[Len(fn)] = (IF naming.data = naming.data0 THEN "png" ELSE "jpg")
       ELSE naming.data = naming.data0

\* ---------------------------------------------------------------------- C24
\* C24: every event was handled when, and only when, the setting of its kind
\* was on as it happened, and no kind of event has two handlers.
C24_HandledIffSettingOn ==
  /\ \A k \in DOMAIN plugin.log : (plugin.log[k].ran > 0) <=> plugin.log[k].on
  /\ \A kind \in DOMAIN plugin.handlers : plugin.handlers[kind] <= 1

C26_WriteIffDownloaded ==
  (call.entry = "file" /\ call.n > 0) =>
    /\ pc = "modify" => stats.downloaded > 0
    /\ call.wrote => stats.downloaded > 0
    /\ (pc = "idle" /\ call.returned = "yes") =>
         /\ call.wrote <=> stats.downloaded > 0
         /\ stats.downloaded = 0 => content = readContent

\* A call has returned without a write: its one image failed, and the note
\* and the content are what was read.
C26_Witness ==
  /\ call.entry = "file" /\ pc = "idle" /\ call.returned = "yes"
  /\ stats.total > 0 /\ stats.failed = stats.total /\ stats.downloaded = 0
  /\ ~call.wrote
  /\ content = readContent /\ vaultDoc = readContent

\* ---------------------------------------------------------------------- C27
\* C27: what the user typed into the note while a call was running is in the
\* note after every step, the call's write included.
C27_NoLostEdit ==
  [][HasEdit(vaultDoc) => HasEdit(vaultDoc')]_vars

\* ---------------------------------------------------------------------- C28
\* The remote image references of a note: the matches of the two expressions.
RemoteImages(doc) == Len(Matches("md", doc)) + Len(Matches("html", doc))

\* C28: the calls that one modification of a note starts write the note at
\* most as many times as the note had remote image references.
C28_WritesBounded ==
  call.entry = "file" => call.writes <= RemoteImages(call.doc0)

\* ---------------------------------------------------------------------- C29
\* C29: a paste whose default handling was prevented and whose handler has
\* come to its end has put text into the editor.
C29_PreventedPasteInserts ==
  (call.entry = "paste" /\ pc = "idle" /\ call.returned \notin {"none", "default"}) =>
    call.wrote

\* ---------------------------------------------------------------------- C30
\* C30: the file at the local path of a successful match holds the bytes that
\* were fetched for that match, converted when they were converted.
C30_StoredBytesAreFetched ==
  \A i \in DOMAIN jobs :
    jobs[i].st = "ok" =>
      /\ jobs[i].path \in DOMAIN files
      /\ files[jobs[i].path] = jobs[i].data

====
